---- MODULE Spec2Model ----
(***************************************************************************)
(* Content-intelligence pipeline of trend-research-bot:                    *)
(* discovery -> normalization -> clustering -> quality filter -> scoring   *)
(* -> idempotent publish.                                                  *)
(*                                                                         *)
(* Text is modelled as a sequence of characters; a character is a one      *)
(* element token such as "a" or " " ("NL" is the newline, "eacute" an      *)
(* accented letter, "euro" a symbol without an ASCII decomposition).       *)
(***************************************************************************)
EXTENDS Integers, Sequences, FiniteSets, TLC

(***************************************************************************)
(* Bounds of the model.                                                    *)
(***************************************************************************)
\* hex digits of the modelled sha1 digest (the real digest has 40)
DigestLen == 3
\* raw topics handed to one normalization pass in SpecNorm
MaxRaw == 2
\* publish calls (direct or made by run) over one service's lifetime
MaxCalls == 2
\* the longest list of candidates handed to cluster()
MaxCluster == 3
\* the max_candidates of a TopicClusterService made with a small cap
SmallCap == 2

(***************************************************************************)
(* Characters.                                                             *)
(***************************************************************************)
Alphabet ==
    {"a", "b", "c", "d", "e", "i", "o", "p", "t", "u", "v", "A", "B", "1", "0",
     "2", "3", "4", "5", "6", "7", "8", "9", "f",
     "g", "h", "j", "k", "l", "m", "n", "w", "L",
     " ", "NL", "-", "_", "!", "eacute", "euro"}

\* code point of a character (str comparison and hashing work on these)
Ord(ch) ==
    CASE ch = "NL" -> 10
      [] ch = " " -> 32
      [] ch = "!" -> 33
      [] ch = "-" -> 45
      [] ch = "0" -> 48
      [] ch = "1" -> 49
      [] ch = "2" -> 50
      [] ch = "3" -> 51
      [] ch = "4" -> 52
      [] ch = "5" -> 53
      [] ch = "6" -> 54
      [] ch = "7" -> 55
      [] ch = "8" -> 56
      [] ch = "9" -> 57
      [] ch = "A" -> 65
      [] ch = "B" -> 66
      [] ch = "L" -> 76
      [] ch = "_" -> 95
      [] ch = "a" -> 97
      [] ch = "b" -> 98
      [] ch = "c" -> 99
      [] ch = "d" -> 100
      [] ch = "e" -> 101
      [] ch = "f" -> 102
      [] ch = "g" -> 103
      [] ch = "h" -> 104
      [] ch = "i" -> 105
      [] ch = "j" -> 106
      [] ch = "k" -> 107
      [] ch = "l" -> 108
      [] ch = "m" -> 109
      [] ch = "n" -> 110
      [] ch = "o" -> 111
      [] ch = "p" -> 112
      [] ch = "t" -> 116
      [] ch = "u" -> 117
      [] ch = "v" -> 118
      [] ch = "w" -> 119
      [] ch = "eacute" -> 233
      [] ch = "euro" -> 8364

\* str.lower() on one character
LowerChar(ch) ==
    CASE ch = "A" -> "a"
      [] ch = "B" -> "b"
      [] ch = "L" -> "l"
      [] OTHER -> ch

IsAsciiAlnum(ch) == (Ord(ch) >= 48 /\ Ord(ch) <= 57)
                    \/ (Ord(ch) >= 65 /\ Ord(ch) <= 90)
                    \/ (Ord(ch) >= 97 /\ Ord(ch) <= 122)

\* \s of the re module
IsSpace(ch) == ch \in {" ", "NL"}

\* \w of the re module (str pattern): letters, digits, underscore
IsWord(ch) == IsAsciiAlnum(ch) \/ ch = "_" \/ ch = "eacute"

RECURSIVE MapLower(_)
MapLower(s) ==
    IF s = <<>> THEN <<>> ELSE <<LowerChar(Head(s))>> \o MapLower(Tail(s))

RECURSIVE Concat(_)
\* the concatenation of a sequence of sequences
Concat(ss) == IF ss = <<>> THEN <<>> ELSE Head(ss) \o Concat(Tail(ss))

RECURSIVE JoinWith(_, _)
\* sep.join(parts)
JoinWith(sep, parts) ==
    IF parts = <<>> THEN <<>>
    ELSE IF Len(parts) = 1 THEN parts[1]
    ELSE parts[1] \o sep \o JoinWith(sep, Tail(parts))

Contains(seq, x) == \E i \in 1..Len(seq) : seq[i] = x

\* lexicographic order of two texts by code point (str.__lt__)
RECURSIVE StrLess(_, _)
StrLess(s, t) ==
    IF t = <<>> THEN FALSE
    ELSE IF s = <<>> THEN TRUE
    ELSE IF Ord(Head(s)) < Ord(Head(t)) THEN TRUE
    ELSE IF Ord(Head(s)) > Ord(Head(t)) THEN FALSE
    ELSE StrLess(Tail(s), Tail(t))

RECURSIVE InsertSorted(_, _)
InsertSorted(x, sorted) ==
    IF sorted = <<>> THEN <<x>>
    ELSE IF StrLess(x, Head(sorted)) THEN <<x>> \o sorted
    ELSE <<Head(sorted)>> \o InsertSorted(x, Tail(sorted))

RECURSIVE SortedSeq(_)
\* sorted(list of str); stable, as list.sort is
SortedSeq(seq) ==
    IF seq = <<>> THEN <<>>
    ELSE InsertSorted(seq[Len(seq)], SortedSeq(SubSeq(seq, 1, Len(seq) - 1)))

RECURSIVE SetToSortedSeq(_)
\* sorted(set of str)
SetToSortedSeq(S) ==
    IF S = {} THEN <<>>
    ELSE LET m == CHOOSE x \in S : \A y \in S : y = x \/ StrLess(x, y)
         IN <<m>> \o SetToSortedSeq(S \ {m})

(***************************************************************************)
(* utils/text.py                                                           *)
(***************************************************************************)
\* unicodedata.normalize("NFKD", ch).encode("ascii", "ignore").decode("ascii")
AsciiFold(ch) ==
    CASE ch = "eacute" -> <<"e">>
      [] ch = "euro" -> <<>>
      [] OTHER -> <<ch>>

RECURSIVE FoldAll(_)
FoldAll(s) == IF s = <<>> THEN <<>> ELSE AsciiFold(Head(s)) \o FoldAll(Tail(s))

RECURSIVE KeepSlugChars(_)
\* re.sub(r"[^\w\s-]", "", value)
KeepSlugChars(s) ==
    IF s = <<>> THEN <<>>
    ELSE IF IsWord(Head(s)) \/ IsSpace(Head(s)) \/ Head(s) = "-"
         THEN <<Head(s)>> \o KeepSlugChars(Tail(s))
         ELSE KeepSlugChars(Tail(s))

RECURSIVE LStrip(_)
LStrip(s) == IF s # <<>> /\ IsSpace(Head(s)) THEN LStrip(Tail(s)) ELSE s

RECURSIVE RStrip(_)
RStrip(s) ==
    IF s # <<>> /\ IsSpace(s[Len(s)]) THEN RStrip(SubSeq(s, 1, Len(s) - 1)) ELSE s

\* str.strip()
Strip(s) == RStrip(LStrip(s))

RECURSIVE CollapseSeparators(_, _)
\* re.sub(r"[\s\-]+", "-", s); inRun: the previous character was a separator
CollapseSeparators(s, inRun) ==
    IF s = <<>> THEN <<>>
    ELSE IF IsSpace(Head(s)) \/ Head(s) = "-"
         THEN (IF inRun THEN <<>> ELSE <<"-">>) \o CollapseSeparators(Tail(s), TRUE)
         ELSE <<Head(s)>> \o CollapseSeparators(Tail(s), FALSE)

\* slugify(value, allow_unicode=False)
slugify(value) ==
    LET ascii == FoldAll(value)
        cleaned == MapLower(Strip(KeepSlugChars(ascii)))
        slug == CollapseSeparators(cleaned, FALSE)
    IN IF slug = <<>> THEN <<"t", "o", "p", "i", "c">> ELSE slug

RECURSIVE FindWords(_, _)
\* re.findall(r"[a-zA-Z0-9]+", s); cur: the run being read
FindWords(s, cur) ==
    IF s = <<>> THEN (IF cur = <<>> THEN <<>> ELSE <<cur>>)
    ELSE IF IsAsciiAlnum(Head(s)) THEN FindWords(Tail(s), Append(cur, Head(s)))
    ELSE (IF cur = <<>> THEN <<>> ELSE <<cur>>) \o FindWords(Tail(s), <<>>)

RECURSIVE KeywordLoop(_, _, _)
\* the loop of extract_keywords: append unseen words, stop at the limit
KeywordLoop(words, seen, limit) ==
    IF words = <<>> THEN seen
    ELSE LET seen2 == IF Contains(seen, Head(words)) THEN seen
                      ELSE Append(seen, Head(words))
         IN IF Len(seen2) >= limit THEN seen2
            ELSE KeywordLoop(Tail(words), seen2, limit)

extract_keywords(text, limit) == KeywordLoop(FindWords(MapLower(text), <<>>), <<>>, limit)

RECURSIVE UrlLoop(_, _)
UrlLoop(urls, clean) ==
    IF urls = <<>> THEN clean
    ELSE LET url == Strip(Head(urls))
         IN IF Head(urls) # <<>> /\ url # <<>> /\ ~Contains(clean, url)
            THEN UrlLoop(Tail(urls), Append(clean, url))
            ELSE UrlLoop(Tail(urls), clean)

normalize_urls(urls) == UrlLoop(urls, <<>>)

(***************************************************************************)
(* hashlib.sha1: a digest of DigestLen hex digits, computed from the code  *)
(* points of the text.  Unequal texts may collide, as with any digest.     *)
(***************************************************************************)
RECURSIVE Pow16(_)
Pow16(n) == IF n = 0 THEN 1 ELSE 16 * Pow16(n - 1)

DigestSpace == Pow16(DigestLen)

RECURSIVE Sha1Fold(_, _)
Sha1Fold(s, h) ==
    IF s = <<>> THEN h
    ELSE Sha1Fold(Tail(s), (h * 31 + Ord(Head(s))) % DigestSpace)

\* int(hashlib.sha1(text.encode("utf-8")).hexdigest(), 16)
Sha1Int(text) == Sha1Fold(text, 7)

HexChar(d) ==
    <<"0", "1", "2", "3", "4", "5", "6", "7", "8", "9", "a", "b", "c", "d", "e", "f">>[d + 1]

RECURSIVE HexDigits(_, _)
\* n written with exactly width hex digits
HexDigits(n, width) ==
    IF width = 0 THEN <<>>
    ELSE Append(HexDigits(n \div 16, width - 1), HexChar(n % 16))

\* hashlib.sha1(...).hexdigest()
Sha1Hex(text) == HexDigits(Sha1Int(text), DigestLen)

\* the [:10] of build_candidates: the leading digits kept in the topic id
TopicHashLen == DigestLen - 1

(***************************************************************************)
(* utils/category.py                                                       *)
(***************************************************************************)
IsPrefix(p, s) == Len(p) <= Len(s) /\ SubSeq(s, 1, Len(p)) = p

\* kw in blob
IsSubstring(kw, blob) ==
    \E i \in 0..Len(blob) : IsPrefix(kw, SubSeq(blob, i + 1, Len(blob)))

RECURSIVE MatchCount(_, _)
\* sum(1 for kw in keywords if kw in blob)
MatchCount(keywords, blob) ==
    IF keywords = <<>> THEN 0
    ELSE (IF IsSubstring(MapLower(Head(keywords)), blob) THEN 1 ELSE 0)
         + MatchCount(Tail(keywords), blob)

RECURSIVE RouteLoop_LastWins(_, _, _, _)
RouteLoop_LastWins(config, blob, best_category, best_score) ==
    IF config = <<>> THEN [category |-> best_category, score |-> best_score]
    ELSE LET score == MatchCount(Head(config).keywords, blob)
         IN IF score >= best_score
            THEN RouteLoop_LastWins(Tail(config), blob, Head(config).name, score)
            ELSE RouteLoop_LastWins(Tail(config), blob, best_category, best_score)

RECURSIVE RouteLoop(_, _, _, _)
\* the scoring loop of route(): [category, score] of the best so far
RouteLoop(config, blob, best_category, best_score) ==
    IF config = <<>> THEN [category |-> best_category, score |-> best_score]
    ELSE LET score == MatchCount(Head(config).keywords, blob)
         IN IF score > best_score
            THEN RouteLoop(Tail(config), blob, Head(config).name, score)
            ELSE RouteLoop(Tail(config), blob, best_category, best_score)

CategoryNames(config) == {config[i].name : i \in 1..Len(config)}

route_UnsortedFallback(config, text, fallback) ==
    LET blob == MapLower(text)
        best == RouteLoop(config, blob, fallback, 0 - 1)
    IN IF best.score <= 0 /\ config # <<>>
       THEN config[(Sha1Int(blob) % Len(config)) + 1].name
       ELSE best.category

\* CategoryRouter.route(text, fallback) for a router built from config
route(config, text, fallback) ==
    LET blob == MapLower(text)
        best == RouteLoop(config, blob, fallback, 0 - 1)
    IN IF best.score <= 0 /\ config # <<>>
       THEN LET categories == SetToSortedSeq(CategoryNames(config))
            IN categories[(Sha1Int(blob) % Len(categories)) + 1]
       ELSE best.category

\* the categories section of the configuration, in configured order
CategoryConfig ==
    << [name |-> <<"a", "i">>, keywords |-> << <<"A", "i">>, <<"b", "o", "t">> >>],
       [name |-> <<"b", "i", "o">>, keywords |-> << <<"t", "i", "p">> >>] >>

(***************************************************************************)
(* models/topic.py: RawTopic, and the raw topics connectors may return     *)
(***************************************************************************)
\* a connector's metadata dict: a missing key is "" or <<>>
RawMeta(source_type, published, cpm) ==
    [source_type |-> source_type, published |-> published, estimated_cpm |-> cpm]

RawTopic(title, summary, source_urls, category_hint, metadata) ==
    [title |-> title, summary |-> summary, source_urls |-> source_urls,
     category_hint |-> category_hint, metadata |-> metadata]

NewsAiBot ==
    RawTopic(<<"A", "i", " ", "B", "o", "t">>, <<"t", "i", "p">>,
             << <<"u">> >>, <<"a", "i">>, RawMeta("", <<"2">>, <<>>))
\* the same title and summary from another connector
RedditAiBot ==
    RawTopic(<<"A", "i", " ", "B", "o", "t">>, <<"t", "i", "p">>,
             << <<"v">>, <<>> >>, <<"p">>, RawMeta("reddit", <<>>, <<>>))
\* other text, the same first keywords once sorted
YoutubeBotAi ==
    RawTopic(<<"B", "o", "t", " ", "a", "i">>, <<"t", "i", "p", "!">>,
             << <<" ", "v">>, <<"v">> >>, <<"p">>, RawMeta("youtube", <<"1">>, <<>>))
\* one keyword, no URL: the quality filter drops it
ShortTopic ==
    RawTopic(<<"d">>, <<>>, <<>>, <<"p">>, RawMeta("search", <<>>, <<>>))
\* a title without any slug character
SymbolTopic ==
    RawTopic(<<"euro", "!">>, <<"a", " ", "b", "NL", "eacute", "c">>,
             << <<"u">>, <<" ">>, <<"u", " ">> >>, <<"a", "i">>, RawMeta("", <<>>, <<>>))

RawCatalog == {NewsAiBot, RedditAiBot, YoutubeBotAi, ShortTopic, SymbolTopic}

(***************************************************************************)
(* services/source_fetch_service.py                                        *)
(***************************************************************************)
keyword_limit == 12

\* f"{raw.title}\n{raw.summary}"
TextBlob(raw) == raw.title \o <<"NL">> \o raw.summary

TopicIdOf_WithHint(raw) ==
    slugify(raw.title) \o <<"-">>
        \o SubSeq(Sha1Hex(TextBlob(raw) \o raw.category_hint), 1, TopicHashLen)

\* topic_id = f"{slug}-{topic_hash}"
TopicIdOf(raw) ==
    slugify(raw.title) \o <<"-">> \o SubSeq(Sha1Hex(TextBlob(raw)), 1, TopicHashLen)

\* the TopicCandidate build_candidates makes of one raw topic
CandidateOf(raw) ==
    [topic_id |-> TopicIdOf(raw),
     topic_title |-> raw.title,
     keywords |-> extract_keywords(TextBlob(raw), keyword_limit),
     source_urls |-> normalize_urls(raw.source_urls),
     category |-> route(CategoryConfig, TextBlob(raw), raw.category_hint),
     metadata |-> [kind |-> "candidate", summary |-> raw.summary,
                   raw_metadata |-> raw.metadata]]

RECURSIVE BuildLoop_NoSeen(_, _)
BuildLoop_NoSeen(raw_topics, st) ==
    IF raw_topics = <<>> THEN st
    ELSE LET topic_id == TopicIdOf(Head(raw_topics))
         IN BuildLoop_NoSeen(Tail(raw_topics),
                [seen |-> st.seen,
                 ids |-> Append(st.ids, topic_id),
                 candidates |-> IF topic_id \in st.seen THEN st.candidates
                                ELSE Append(st.candidates, CandidateOf(Head(raw_topics)))])

RECURSIVE BuildLoop(_, _)
\* the loop of build_candidates; st.ids: the topic_id computed for each raw topic
BuildLoop(raw_topics, st) ==
    IF raw_topics = <<>> THEN st
    ELSE LET topic_id == TopicIdOf(Head(raw_topics))
         IN IF topic_id \in st.seen
            THEN BuildLoop(Tail(raw_topics),
                           [st EXCEPT !.ids = Append(@, topic_id)])
            ELSE BuildLoop(Tail(raw_topics),
                           [seen |-> st.seen \cup {topic_id},
                            ids |-> Append(st.ids, topic_id),
                            candidates |-> Append(st.candidates, CandidateOf(Head(raw_topics)))])

BuildPass(raw_topics) ==
    BuildLoop(raw_topics, [seen |-> {}, ids |-> <<>>, candidates |-> <<>>])

\* SourceFetchService.build_candidates(raw_topics)
build_candidates(raw_topics) == BuildPass(raw_topics).candidates

(***************************************************************************)
(* services/topic_cluster_service.py                                       *)
(***************************************************************************)
max_candidates == 250

Min(a, b) == IF a < b THEN a ELSE b
Max(a, b) == IF a > b THEN a ELSE b

cluster_key_Unsorted(keywords) ==
    JoinWith(<<"-">>, SubSeq(keywords, 1, Min(Len(keywords), 6)))

\* "-".join(sorted(keywords[:6]))
cluster_key(keywords) ==
    JoinWith(<<"-">>, SortedSeq(SubSeq(keywords, 1, Min(Len(keywords), 6))))

\* the value the defaultdict makes for a new key
NewCluster(key) ==
    [key |-> key, keywords |-> <<>>, source_urls |-> {}, titles |-> <<>>,
     raw_metadata |-> <<>>, summaries |-> <<>>, source_counts |-> <<>>,
     latest_published |-> <<>>, category_hint |-> <<>>, topic_ids |-> <<>>,
     category |-> <<>>, topic_id |-> <<>>]

\* source_counts[source_type] += 1 on a defaultdict(int), kept as a
\* sequence of [source_type, count] in insertion order
RECURSIVE Increment(_, _)
Increment(counts, source_type) ==
    IF counts = <<>> THEN << [source_type |-> source_type, count |-> 1] >>
    ELSE IF Head(counts).source_type = source_type
         THEN << [Head(counts) EXCEPT !.count = @ + 1] >> \o Tail(counts)
         ELSE << Head(counts) >> \o Increment(Tail(counts), source_type)

\* source_counts.get(source_type, 0)
RECURSIVE CountOf(_, _)
CountOf(counts, source_type) ==
    IF counts = <<>> THEN 0
    ELSE IF Head(counts).source_type = source_type THEN Head(counts).count
    ELSE CountOf(Tail(counts), source_type)

\* max(latest or published, published) on str
LatestPublished(latest, published) ==
    LET l == IF latest = <<>> THEN published ELSE latest
    IN IF StrLess(l, published) THEN published ELSE l

Accumulate_FirstCategory(c, candidate) ==
    LET raw_meta == candidate.metadata.raw_metadata
        category == IF c.titles = <<>> THEN candidate.category ELSE c.category
    IN [c EXCEPT
          !.keywords = @ \o candidate.keywords,
          !.source_urls = @ \cup {candidate.source_urls[i] : i \in 1..Len(candidate.source_urls)},
          !.titles = Append(@, candidate.topic_title),
          !.summaries = Append(@, candidate.metadata.summary),
          !.raw_metadata = Append(@, raw_meta),
          !.source_counts = IF raw_meta.source_type # "" THEN Increment(@, raw_meta.source_type)
                            ELSE @,
          !.latest_published = IF raw_meta.published # <<>>
                               THEN LatestPublished(@, raw_meta.published) ELSE @,
          !.category_hint = category,
          !.topic_ids = Append(@, candidate.topic_id),
          !.category = category,
          !.topic_id = candidate.topic_id]

\* the body of the first loop of cluster() for one candidate
Accumulate(c, candidate) ==
    LET raw_meta == candidate.metadata.raw_metadata
    IN [c EXCEPT
          !.keywords = @ \o candidate.keywords,
          !.source_urls = @ \cup {candidate.source_urls[i] : i \in 1..Len(candidate.source_urls)},
          !.titles = Append(@, candidate.topic_title),
          !.summaries = Append(@, candidate.metadata.summary),
          !.raw_metadata = Append(@, raw_meta),
          !.source_counts = IF raw_meta.source_type # "" THEN Increment(@, raw_meta.source_type)
                            ELSE @,
          !.latest_published = IF raw_meta.published # <<>>
                               THEN LatestPublished(@, raw_meta.published) ELSE @,
          !.category_hint = candidate.category,
          !.topic_ids = Append(@, candidate.topic_id),
          !.category = candidate.category,
          !.topic_id = candidate.topic_id]

RECURSIVE UpdateCluster(_, _, _)
\* clusters[key] updated in place; a new key goes last (dict insertion order)
UpdateCluster(clusters, key, candidate) ==
    IF clusters = <<>> THEN << Accumulate(NewCluster(key), candidate) >>
    ELSE IF Head(clusters).key = key
         THEN << Accumulate(Head(clusters), candidate) >> \o Tail(clusters)
         ELSE << Head(clusters) >> \o UpdateCluster(Tail(clusters), key, candidate)

RECURSIVE ClusterLoop(_, _)
ClusterLoop(candidates, clusters) ==
    IF candidates = <<>> THEN clusters
    ELSE ClusterLoop(Tail(candidates),
                     UpdateCluster(clusters, cluster_key(Head(candidates).keywords),
                                   Head(candidates)))

Dedupe_KeepAll(seq, acc) == acc \o seq

RECURSIVE Dedupe(_, _)
\* list(dict.fromkeys(seq))
Dedupe(seq, acc) ==
    IF seq = <<>> THEN acc
    ELSE Dedupe(Tail(seq), IF Contains(acc, Head(seq)) THEN acc ELSE Append(acc, Head(seq)))

RECURSIVE DecimalDigits(_)
\* str(n) for n >= 0
DecimalDigits(n) ==
    IF n < 10 THEN << HexChar(n) >>
    ELSE Append(DecimalDigits(n \div 10), HexChar(n % 10))

MergedOf_KeyOnly(data, position) ==
    [topic_id |-> data.key,
     topic_title |-> data.titles[1],
     keywords |-> Dedupe(data.keywords, <<>>),
     source_urls |-> SetToSortedSeq(data.source_urls),
     category |-> data.category_hint,
     metadata |-> [kind |-> "cluster", raw_metadata |-> data.raw_metadata,
                   summaries |-> data.summaries, source_counts |-> data.source_counts,
                   latest_published |-> data.latest_published,
                   category_hint |-> data.category_hint, topic_ids |-> data.topic_ids]]

\* the TopicCandidate the second loop of cluster() makes of one cluster;
\* position: len(merged) when it is made
MergedOf(data, position) ==
    LET keywords == Dedupe(data.keywords, <<>>)
    IN [topic_id |-> data.key \o <<"-">> \o DecimalDigits(position),
        topic_title |-> data.titles[1],
        keywords |-> SubSeq(keywords, 1, Min(Len(keywords), 12)),
        source_urls |-> SetToSortedSeq(data.source_urls),
        category |-> data.category_hint,
        metadata |-> [kind |-> "cluster",
                      raw_metadata |-> data.raw_metadata,
                      summaries |-> data.summaries,
                      source_counts |-> data.source_counts,
                      latest_published |-> data.latest_published,
                      category_hint |-> data.category_hint,
                      topic_ids |-> data.topic_ids]]

cluster_capped_Whole(candidates, cap) ==
    LET clusters == ClusterLoop(candidates, <<>>)
    IN [i \in 1..Len(clusters) |-> MergedOf(clusters[i], i - 1)]

\* cluster(candidates) of a TopicClusterService made with max_candidates = cap
cluster_capped(candidates, cap) ==
    LET clusters == ClusterLoop(SubSeq(candidates, 1, Min(Len(candidates), cap)), <<>>)
    IN [i \in 1..Len(clusters) |-> MergedOf(clusters[i], i - 1)]

\* TopicClusterService.cluster(candidates) of the pipeline's service,
\* made as TopicClusterService()
cluster(candidates) == cluster_capped(candidates, max_candidates)

\* a TopicCandidate as build_candidates makes them
Candidate(topic_id, keywords, source_urls, category, raw_metadata) ==
    [topic_id |-> topic_id, topic_title |-> topic_id, keywords |-> keywords,
     source_urls |-> source_urls, category |-> category,
     metadata |-> [kind |-> "candidate", summary |-> <<>>, raw_metadata |-> raw_metadata]]

\* one-letter keywords
Letters(s) == [i \in 1..Len(s) |-> << s[i] >>]

\* eight keywords
LongA ==
    Candidate(<<"L", "a">>, Letters(<<"a", "b", "c", "d", "e", "f", "g", "h">>),
              << <<"u">>, <<"w">> >>, <<"a", "i">>, RawMeta("youtube", <<"1">>, <<>>))
\* twelve keywords, the first six those of LongA in another order
LongB ==
    Candidate(<<"L", "b">>,
              Letters(<<"f", "e", "d", "c", "b", "a", "i", "j", "k", "l", "m", "n">>),
              << <<"w">>, <<"t">> >>, <<"b", "i", "o">>, RawMeta("reddit", <<"3">>, <<>>))
\* the first seven keywords of LongA, the sixth and seventh swapped; no URL
LongC ==
    Candidate(<<"L", "c">>, Letters(<<"a", "b", "c", "d", "e", "g", "f">>),
              <<>>, <<"a", "i">>, RawMeta("youtube", <<>>, <<>>))

\* two keywords, one URL
TwoWords ==
    Candidate(<<"L", "d">>, Letters(<<"a", "b">>), << <<"u">> >>, <<"b", "i", "o">>,
              RawMeta("search", <<>>, <<>>))

\* the candidates cluster() is called with
ClusterCatalog ==
    {CandidateOf(NewsAiBot), CandidateOf(YoutubeBotAi), CandidateOf(ShortTopic),
     LongA, LongB, LongC, TwoWords}

(***************************************************************************)
(* services/quality_filter_service.py                                      *)
(***************************************************************************)
min_keyword_count == 3
min_source_urls == 1

RECURSIVE filter_KeywordsOnly(_)
filter_KeywordsOnly(candidates) ==
    IF candidates = <<>> THEN <<>>
    ELSE IF Len(Head(candidates).keywords) < min_keyword_count
         THEN filter_KeywordsOnly(Tail(candidates))
         ELSE << Head(candidates) >> \o filter_KeywordsOnly(Tail(candidates))

filter_KeepsAll(candidates) == candidates

RECURSIVE filter(_)
\* QualityFilterService.filter(candidates)
filter(candidates) ==
    IF candidates = <<>> THEN <<>>
    ELSE IF Len(Head(candidates).keywords) < min_keyword_count THEN filter(Tail(candidates))
    ELSE IF Len(Head(candidates).source_urls) < min_source_urls THEN filter(Tail(candidates))
    ELSE << Head(candidates) >> \o filter(Tail(candidates))

(***************************************************************************)
(* models/topic.py: TopicScores; services/content_score_service.py         *)
(* Sub-scores are counted in units of 1/1200, estimated_cpm and the        *)
(* baseline in hundredths, global_score in ten-thousandths.                *)
(***************************************************************************)
ScoreUnit == 1200
\* monetization_baseline: scoring.monetization_baseline, default 0.4
monetization_baseline == 40
\* the default of metadata.get("estimated_cpm", 0.5)
default_cpm == 50

\* @dataclass(slots=True): an instance of TopicScores has no __dict__
TopicScoresHasDict == FALSE

\* TopicScores.global_score(): round(weighted sum, 4)
global_score(s) ==
    LET sum == 35 * s.trend_velocity + 25 * s.search_volume + 15 * s.news_frequency
               + 15 * s.youtube_activity + 10 * s.monetization_value
        \* sum is in units of 1/120000; one ten-thousandth is 12 of them
        q == sum \div 12
        r == sum % 12
    IN IF r > 6 \/ (r = 6 /\ q % 2 = 1) THEN q + 1 ELSE q

\* ContentScoreService._compute_scores(candidate):
\* [raised |-> TRUE, exc] or [raised |-> FALSE, scores]
compute_scores(candidate) ==
    LET \* candidate.metadata.get("raw_metadata", {}): the dict build_candidates
        \* stored, or the list cluster() stored
        is_list == candidate.metadata.kind = "cluster"
        metadata == candidate.metadata.raw_metadata
        source_counts == IF is_list THEN candidate.metadata.source_counts ELSE <<>>
    IN IF is_list
       THEN \* metadata.get("estimated_cpm", 0.5) on a list raises
            [raised |-> TRUE, exc |-> "AttributeError"]
       ELSE LET cpm == IF metadata.estimated_cpm = <<>> THEN default_cpm
                       ELSE metadata.estimated_cpm[1]
            IN [raised |-> FALSE,
                scores |->
                  [trend_velocity |-> Min(ScoreUnit, (CountOf(source_counts, "youtube")
                                           + CountOf(source_counts, "reddit")) * 120),
                   search_volume |-> Min(ScoreUnit, Len(candidate.keywords) * 100),
                   news_frequency |-> Min(ScoreUnit, Len(candidate.source_urls) * 120),
                   youtube_activity |-> Min(ScoreUnit, CountOf(source_counts, "youtube") * 240),
                   monetization_value |-> Max(monetization_baseline * 12,
                                              Min(ScoreUnit, cpm * 12))]]

\* the body of the loop of score() for one candidate
ScoreOne(candidate) ==
    LET computed == compute_scores(candidate)
    IN IF computed.raised THEN computed
       ELSE IF ~TopicScoresHasDict
       THEN \* scores.__dict__ raises
            [raised |-> TRUE, exc |-> "AttributeError"]
       ELSE [raised |-> FALSE,
             topic |-> [topic_id |-> candidate.topic_id,
                        topic_title |-> candidate.topic_title,
                        keywords |-> candidate.keywords,
                        source_urls |-> candidate.source_urls,
                        category |-> candidate.category,
                        trend_score |-> computed.scores.trend_velocity,
                        freshness_score |-> computed.scores.news_frequency,
                        monetization_score |-> computed.scores.monetization_value,
                        global_score |-> global_score(computed.scores),
                        diagnostics |-> [raw_metadata |-> candidate.metadata,
                                         score_components |-> computed.scores]]]

RECURSIVE ScoreLoop(_, _)
ScoreLoop(candidates, scored) ==
    IF candidates = <<>> THEN [raised |-> FALSE, topics |-> scored]
    ELSE LET one == ScoreOne(Head(candidates))
         IN IF one.raised THEN [raised |-> TRUE, exc |-> one.exc, topics |-> <<>>]
            ELSE ScoreLoop(Tail(candidates), Append(scored, one.topic))

score_RejectsEmpty(candidates) ==
    IF candidates = <<>> THEN [raised |-> TRUE, exc |-> "ValueError", topics |-> <<>>]
    ELSE ScoreLoop(candidates, <<>>)

\* ContentScoreService.score(candidates)
score(candidates) == ScoreLoop(candidates, <<>>)

(***************************************************************************)
(* State.                                                                  *)
(***************************************************************************)
VARIABLES
    seen_ids,       \* QueuePublisherService._seen_ids
    calls,          \* the publish() calls made so far, in call order
    transport_log,  \* the batches handed to publisher.publish, in order
    enabled,        \* BaseConnector.enabled of each connector
    fetch,          \* the fetch() task of each connector in the current run
    completed,      \* the connectors whose fetch() has ended, in the order they ended
    run_pc,         \* where ContentIntelPipeline.run is
    run,            \* the locals of the current (or last) run
    norm,           \* the latest build_candidates pass made on its own
    norm_prev,      \* the pass before it
    stage,          \* cluster, filter and score called in turn on a list of candidates
    routed,         \* the latest two CategoryRouter.route calls made on their own
    runs            \* the latest two run() calls made one after the other

vars == <<seen_ids, calls, transport_log, enabled, fetch, completed, run_pc, run, norm,
          norm_prev, stage, routed, runs>>

publisher_vars == <<seen_ids, calls, transport_log>>
pipeline_vars == <<enabled, fetch, completed, run_pc, run>>
norm_vars == <<norm, norm_prev>>
stage_vars == <<stage>>
route_vars == <<routed>>
runs_vars == <<runs>>

\* self.connectors, in declaration order
Connectors == <<"news_rss", "reddit_topics">>
ConnectorIds == 1..Len(Connectors)

\* what each connector's _fetch_impl may return
FetchResults(c) ==
    IF Connectors[c] = "news_rss"
    THEN { <<NewsAiBot>>, <<NewsAiBot, ShortTopic>>, <<>> }
    ELSE { <<RedditAiBot, YoutubeBotAi>>, <<SymbolTopic>> }

\* Topic objects a caller of publish() may hold
TopicA == [topic_id |-> <<"a", "-", "0">>, topic_title |-> <<"A">>]
TopicB == [topic_id |-> <<"b", "-", "0">>, topic_title |-> <<"B">>]
\* another Topic with the id of TopicA
TopicA2 == [topic_id |-> <<"a", "-", "0">>, topic_title |-> <<"A", "2">>]

Batches ==
    { <<>>, <<TopicA>>, <<TopicB>>, <<TopicA, TopicB>>, <<TopicB, TopicA2, TopicA>> }

NoPass == [done |-> FALSE, raw_topics |-> <<>>, ids |-> <<>>, candidates |-> <<>>]
NoRun == [raw_topics |-> <<>>, candidates |-> <<>>, clustered |-> <<>>,
          filtered |-> <<>>, scored |-> <<>>, score_raised |-> FALSE,
          exc |-> "", returned |-> <<>>, call |-> 0]
\* no exception
NoError == [type |-> "", message |-> ""]
NoExc == [type |-> "", args |-> <<>>, cause |-> NoError, context |-> NoError]
\* impl_called: fetch() has called _fetch_impl; exc: the exception fetch() raised
NoFetch == [pc |-> "idle", kind |-> "", topics |-> <<>>, impl_called |-> FALSE,
            exc |-> NoExc]
NoStage == [pc |-> "idle", candidates |-> <<>>, max_candidates |-> 0, merged |-> <<>>,
            merged_after |-> <<>>, filtered |-> <<>>, computed |-> <<>>,
            score_raised |-> FALSE, scored |-> <<>>]

\* a route() call that was not made
NoRouteCall == [done |-> FALSE, config |-> <<>>, text |-> <<>>, fallback |-> <<>>,
                category |-> <<>>]
NoRoute == [prev |-> NoRouteCall, last |-> NoRouteCall]
\* a run() that was not made
NoRunMade == [done |-> FALSE, results |-> <<>>, raw_topics |-> <<>>, clustered |-> <<>>,
              filtered |-> <<>>, score_raised |-> FALSE, scored |-> <<>>, handed |-> <<>>,
              outcome |-> "", returned |-> <<>>]
NoRuns == [prev |-> NoRunMade, last |-> NoRunMade]

Init ==
    /\ seen_ids = {}
    /\ calls = <<>>
    /\ transport_log = <<>>
    /\ enabled \in [ConnectorIds -> BOOLEAN]
    /\ fetch = [c \in ConnectorIds |-> NoFetch]
    /\ completed = <<>>
    /\ run_pc = "idle"
    /\ run = NoRun
    /\ norm = NoPass
    /\ norm_prev = NoPass
    /\ stage = NoStage
    /\ routed = NoRoute
    /\ runs = NoRuns

(***************************************************************************)
(* services/queue_publisher_service.py                                     *)
(***************************************************************************)
IdsOf(topics) == {topics[i].topic_id : i \in 1..Len(topics)}

FreshTopics_All(topics, seen) == topics

RECURSIVE FreshTopics(_, _)
\* [topic for topic in topics if topic.topic_id not in self._seen_ids]
FreshTopics(topics, seen) ==
    IF topics = <<>> THEN <<>>
    ELSE IF Head(topics).topic_id \notin seen
         THEN << Head(topics) >> \o FreshTopics(Tail(topics), seen)
         ELSE FreshTopics(Tail(topics), seen)

MarkSeen_Nothing(seen, fresh_topics) == seen

MarkSeen_Replaces(seen, fresh_topics) == IdsOf(fresh_topics)

\* the loop "for topic in fresh_topics: self._seen_ids.add(topic.topic_id)"
MarkSeen(seen, fresh_topics) == seen \cup IdsOf(fresh_topics)

SeenAfterFailure_Marked(seen, fresh_topics) == seen \cup IdsOf(fresh_topics)

\* _seen_ids when "await self.publisher.publish(fresh_topics)" raises:
\* the exception leaves publish() before the marking loop
SeenAfterFailure(seen, fresh_topics) == seen

CallAfterFailure_Swallowed(call) == [call EXCEPT !.pc = "returned", !.result = 0]

\* a publish() call whose transport call raised: nothing catches it
CallAfterFailure(call) == [call EXCEPT !.pc = "raised", !.exc = "TransportError"]

BeginCall_AlwaysInvokes(caller, topics, seen, finished) ==
    [caller |-> caller, topics |-> topics, seen_at_start |-> seen,
     finished_before |-> finished, fresh |-> FreshTopics(topics, seen),
     invoked |-> TRUE, pc |-> "awaiting", result |-> 0, exc |-> ""]

\* a publish() call from its first line to its first suspension or its return
\* (seen_at_start and finished_before record when the call was made:
\* finished_before holds the calls that had returned or raised by then)
BeginCall(caller, topics, seen, finished) ==
    LET fresh_topics == FreshTopics(topics, seen)
    IN [caller |-> caller, topics |-> topics, seen_at_start |-> seen,
        finished_before |-> finished,
        fresh |-> fresh_topics,
        invoked |-> fresh_topics # <<>>,
        pc |-> IF fresh_topics = <<>> THEN "returned" ELSE "awaiting",
        result |-> 0, exc |-> ""]

\* the transport log after that call's start
LogAfter(log, call, index) ==
    IF call.invoked
    THEN Append(log, [call |-> index, topics |-> call.fresh, outcome |-> "pending"])
    ELSE log

\* the transport log once the invocation made by call c has ended
LogEnded(log, c, outcome) ==
    [e \in 1..Len(log) |-> IF log[e].call = c THEN [log[e] EXCEPT !.outcome = outcome]
                           ELSE log[e]]

\* the calls that have returned or raised
Finished == {c \in 1..Len(calls) : calls[c].pc # "awaiting"}

\* some caller other than run() calls publish(topics)
PublishStart(topics) ==
    /\ Len(calls) + (IF run_pc = "discovering" THEN 1 ELSE 0) < MaxCalls
    /\ LET call == BeginCall("direct", topics, seen_ids, Finished)
       IN /\ calls' = Append(calls, call)
          /\ transport_log' = LogAfter(transport_log, call, Len(calls) + 1)
    /\ UNCHANGED <<seen_ids, pipeline_vars, norm_vars, stage_vars, route_vars, runs_vars>>

\* publisher.publish returns: publish() marks the ids and returns, and a
\* run() awaiting it returns scored
TransportReturns(c) ==
    /\ calls[c].pc = "awaiting"
    /\ seen_ids' = MarkSeen(seen_ids, calls[c].fresh)
    /\ calls' = [calls EXCEPT ![c].pc = "returned", ![c].result = Len(calls[c].fresh)]
    /\ IF calls[c].caller = "run"
       THEN /\ run_pc' = "returned"
            /\ run' = [run EXCEPT !.returned = run.scored]
       ELSE UNCHANGED <<run_pc, run>>
    /\ transport_log' = LogEnded(transport_log, c, "returned")
    /\ UNCHANGED <<enabled, fetch, completed, norm_vars, stage_vars, route_vars, runs_vars>>

\* publisher.publish raises
TransportRaises(c) ==
    /\ calls[c].pc = "awaiting"
    /\ seen_ids' = SeenAfterFailure(seen_ids, calls[c].fresh)
    /\ calls' = [calls EXCEPT ![c] = CallAfterFailure(calls[c])]
    /\ IF calls[c].caller = "run"
       THEN /\ run_pc' = calls'[c].pc
            /\ run' = [run EXCEPT !.exc = calls'[c].exc]
       ELSE UNCHANGED <<run_pc, run>>
    /\ transport_log' = LogEnded(transport_log, c, "raised")
    /\ UNCHANGED <<enabled, fetch, completed, norm_vars, stage_vars, route_vars, runs_vars>>

(***************************************************************************)
(* connectors/base.py and services/trend_discovery_service.py              *)
(***************************************************************************)
\* the errors _fetch_impl of each connector may raise (instances of Exception)
ImplErrors(c) ==
    IF Connectors[c] = "news_rss"
    THEN { [type |-> "TimeoutError", message |-> "read timed out"] }
    ELSE { [type |-> "ValueError", message |-> "bad credentials"] }

\* fetch() when _fetch_impl returned topics
FetchOk(topics) ==
    [pc |-> "done", kind |-> "ok", topics |-> topics, impl_called |-> TRUE, exc |-> NoExc]

FetchSkipped_CallsImpl ==
    [pc |-> "done", kind |-> "ok", topics |-> <<>>, impl_called |-> TRUE, exc |-> NoExc]

\* fetch() of a disabled connector: "return []" before the try block
FetchSkipped ==
    [pc |-> "done", kind |-> "ok", topics |-> <<>>, impl_called |-> FALSE, exc |-> NoExc]

\* ConnectorError(str(err)) raised in the except block: the message is the
\* only argument, there is no "from err" (so __cause__ is None) and err is
\* the implicit __context__
ConnectorError(err) ==
    [type |-> "ConnectorError", args |-> << err.message >>, cause |-> NoError,
     context |-> err]

\* fetch() when _fetch_impl raised err: raise ConnectorError(str(err))
FetchFailed(err) ==
    [pc |-> "done", kind |-> ConnectorError(err).type, topics |-> <<>>,
     impl_called |-> TRUE, exc |-> ConnectorError(err)]

RECURSIVE discover_SkipAfterError(_)
discover_SkipAfterError(results) ==
    IF results = <<>> THEN <<>>
    ELSE IF Head(results).kind # "ok" THEN <<>>
    ELSE Head(results).topics \o discover_SkipAfterError(Tail(results))

RECURSIVE discover(_)
\* the loop of discover() over the results of gather(return_exceptions=True),
\* which are in connector order
discover(results) ==
    IF results = <<>> THEN <<>>
    ELSE IF Head(results).kind # "ok" THEN discover(Tail(results))
    ELSE Head(results).topics \o discover(Tail(results))

(***************************************************************************)
(* services/content_intel_pipeline.py                                      *)
(***************************************************************************)
\* run() is called: discover() hands every connector's fetch() to gather
RunStart ==
    /\ run_pc \in {"idle", "returned", "raised"}
    /\ Len(calls) < MaxCalls
    /\ run_pc' = "discovering"
    /\ fetch' = [c \in ConnectorIds |-> [NoFetch EXCEPT !.pc = "pending"]]
    /\ completed' = <<>>
    /\ run' = NoRun
    /\ UNCHANGED <<publisher_vars, enabled, norm_vars, stage_vars, route_vars, runs_vars>>

\* fetch() of a disabled connector returns [] at once
FetchDisabled(c) ==
    /\ fetch[c].pc = "pending"
    /\ ~enabled[c]
    /\ fetch' = [fetch EXCEPT ![c] = FetchSkipped]
    /\ completed' = Append(completed, c)
    /\ UNCHANGED <<publisher_vars, enabled, run_pc, run, norm_vars, stage_vars, route_vars, runs_vars>>

\* _fetch_impl returns topics
FetchReturns(c, topics) ==
    /\ fetch[c].pc = "pending"
    /\ enabled[c]
    /\ fetch' = [fetch EXCEPT ![c] = FetchOk(topics)]
    /\ completed' = Append(completed, c)
    /\ UNCHANGED <<publisher_vars, enabled, run_pc, run, norm_vars, stage_vars, route_vars, runs_vars>>

\* _fetch_impl raises
FetchRaises(c, err) ==
    /\ fetch[c].pc = "pending"
    /\ enabled[c]
    /\ fetch' = [fetch EXCEPT ![c] = FetchFailed(err)]
    /\ completed' = Append(completed, c)
    /\ UNCHANGED <<publisher_vars, enabled, run_pc, run, norm_vars, stage_vars, route_vars, runs_vars>>

\* the connector's source puts a timeout on its outbound requests:
\* httpx.AsyncClient(timeout=10) in news_rss.py; asyncpraw.Reddit(...) in
\* reddit_topics.py is given none, and no call of the connector or of
\* discover() is wrapped in a timeout
HasTimeout(c) == Connectors[c] # "reddit_topics"

\* an outbound request of _fetch_impl gets no response
RequestStalls(c) ==
    /\ fetch[c].pc = "pending"
    /\ enabled[c]
    /\ fetch' = [fetch EXCEPT ![c].pc = "stalled", ![c].impl_called = TRUE]
    /\ UNCHANGED <<publisher_vars, enabled, completed, run_pc, run, norm_vars, stage_vars, route_vars, runs_vars>>

\* the stalled request is ended by a timeout: the exception is one of the
\* results of the connector's own gather(return_exceptions=True), which
\* _fetch_impl logs, and _fetch_impl returns the topics of its other requests
RequestTimesOut(c, topics) ==
    /\ fetch[c].pc = "stalled"
    /\ fetch' = [fetch EXCEPT ![c] = FetchOk(topics)]
    /\ completed' = Append(completed, c)
    /\ UNCHANGED <<publisher_vars, enabled, run_pc, run, norm_vars, stage_vars, route_vars, runs_vars>>

GatherDone_FirstException(f) ==
    \/ \A c \in ConnectorIds : f[c].pc = "done"
    \/ \E c \in ConnectorIds : f[c].kind = "ConnectorError"

\* "await asyncio.gather(*tasks, return_exceptions=True)" is over: every
\* task has returned or raised
GatherDone(f) == \A c \in ConnectorIds : f[c].pc = "done"

GatherResults_CompletionOrder(f) == [k \in 1..Len(completed) |-> f[completed[k]]]

\* the results gather hands back: one per task, in the order of the tasks
GatherResults(f) == [c \in ConnectorIds |-> f[c]]

\* gather is done: run() goes on, without suspending, through discover's
\* loop, build_candidates, cluster, filter and score into publish()
RunGathered ==
    /\ run_pc = "discovering"
    /\ GatherDone(fetch)
    /\ LET raw_topics == discover(GatherResults(fetch))
           candidates == build_candidates(raw_topics)
           clustered == cluster(candidates)
           filtered == filter(clustered)
           sc == score(filtered)
           stages == [NoRun EXCEPT !.raw_topics = raw_topics, !.candidates = candidates,
                                   !.clustered = clustered, !.filtered = filtered]
       IN IF sc.raised
          THEN /\ run_pc' = "raised"
               /\ run' = [stages EXCEPT !.score_raised = TRUE, !.exc = sc.exc]
               /\ UNCHANGED publisher_vars
          ELSE LET call == BeginCall("run", sc.topics, seen_ids, Finished)
               IN /\ calls' = Append(calls, call)
                  /\ transport_log' = LogAfter(transport_log, call, Len(calls) + 1)
                  /\ run_pc' = IF call.pc = "returned" THEN "returned" ELSE "publishing"
                  /\ run' = [stages EXCEPT !.scored = sc.topics,
                                           !.call = Len(calls) + 1,
                                           !.returned = sc.topics]
                  /\ UNCHANGED seen_ids
    /\ UNCHANGED <<enabled, fetch, completed, norm_vars, stage_vars, route_vars, runs_vars>>

(***************************************************************************)
(* The pipeline with its publish service.                                  *)
(***************************************************************************)
Next ==
    \/ \E topics \in Batches : PublishStart(topics)
    \/ \E c \in 1..Len(calls) : TransportReturns(c)
    \/ \E c \in 1..Len(calls) : TransportRaises(c)
    \/ RunStart
    \/ \E c \in ConnectorIds : FetchDisabled(c)
    \/ \E c \in ConnectorIds : \E topics \in FetchResults(c) : FetchReturns(c, topics)
    \/ \E c \in ConnectorIds : \E err \in ImplErrors(c) : FetchRaises(c, err)
    \/ RunGathered

Spec == Init /\ [][Next]_vars

(***************************************************************************)
(* Discovery with requests that get no response.  A pending request is     *)
(* answered, fails or stalls; a timeout ends a stalled request where the   *)
(* connector's source sets one; run() goes on once gather is done.         *)
(***************************************************************************)
\* what _fetch_impl returns when one of its requests timed out
PartialResults(c) == FetchResults(c) \cup { <<>> }

Responds(c) ==
    \/ \E topics \in FetchResults(c) : FetchReturns(c, topics)
    \/ \E err \in ImplErrors(c) : FetchRaises(c, err)
    \/ RequestStalls(c)

NextLive ==
    \/ RunStart
    \/ \E c \in ConnectorIds : FetchDisabled(c)
    \/ \E c \in ConnectorIds : \E topics \in FetchResults(c) : FetchReturns(c, topics)
    \/ \E c \in ConnectorIds : \E err \in ImplErrors(c) : FetchRaises(c, err)
    \/ \E c \in ConnectorIds : RequestStalls(c)
    \/ \E c \in ConnectorIds : \E topics \in PartialResults(c) : RequestTimesOut(c, topics)
    \/ RunGathered

\* the steps of RunGathered, told by their guard and by what they do to
\* run_pc: once gather is done the event loop resumes run()
RunGoesOn ==
    /\ run_pc = "discovering"
    /\ GatherDone(fetch)
    /\ run_pc' \in {"raised", "returned", "publishing"}

\* the event loop runs every task that can run, a request that is not
\* stalled is answered or fails, and a timeout set by the source fires
FairLive ==
    /\ WF_run_pc(RunGoesOn)
    /\ \A c \in ConnectorIds : WF_vars(FetchDisabled(c))
    /\ \A c \in ConnectorIds : WF_vars(Responds(c))
    /\ \A c \in ConnectorIds :
           HasTimeout(c) => WF_vars(\E topics \in PartialResults(c) : RequestTimesOut(c, topics))

SpecLive == Init /\ [][NextLive]_vars /\ FairLive

(***************************************************************************)
(* build_candidates on its own: two passes over any raw topics.            *)
(***************************************************************************)
RECURSIVE SeqsUpTo(_, _)
\* the sequences over S of length at most n
SeqsUpTo(S, n) ==
    IF n = 0 THEN { <<>> }
    ELSE LET shorter == SeqsUpTo(S, n - 1)
         IN shorter \cup { Append(q, x) : q \in shorter, x \in S }

\* one more pass; the model keeps the latest two
NormalizePass(raw_topics) ==
    /\ ~norm_prev.done
    /\ LET pass == BuildPass(raw_topics)
       IN norm' = [done |-> TRUE, raw_topics |-> raw_topics, ids |-> pass.ids,
                   candidates |-> pass.candidates]
    /\ norm_prev' = norm
    /\ UNCHANGED <<publisher_vars, pipeline_vars, stage_vars, route_vars, runs_vars>>

NextNorm == \E raw_topics \in SeqsUpTo(RawCatalog, MaxRaw) : NormalizePass(raw_topics)

InitNorm == Init /\ \A c \in ConnectorIds : enabled[c]

SpecNorm == InitNorm /\ [][NextNorm]_vars

(***************************************************************************)
(* cluster, filter and score on their own: the three calls run() makes     *)
(* between its two awaits, on any list of candidates, by a                 *)
(* TopicClusterService with the default or with a small max_candidates.    *)
(***************************************************************************)
ClusterCaps == {SmallCap, max_candidates}

\* clustered = self.cluster.cluster(candidates)
ClusterCall(candidates, cap) ==
    /\ stage.pc = "idle"
    /\ stage' = [NoStage EXCEPT !.pc = "clustered", !.candidates = candidates,
                                !.max_candidates = cap,
                                !.merged = cluster_capped(candidates, cap)]
    /\ UNCHANGED <<publisher_vars, pipeline_vars, norm_vars, route_vars, runs_vars>>

\* filtered = self.quality.filter(clustered); merged_after: the input list
\* once filter has returned (no statement of filter assigns to the list or
\* to a field of a candidate)
FilterCall ==
    /\ stage.pc = "clustered"
    /\ stage' = [stage EXCEPT !.pc = "filtered", !.filtered = filter(stage.merged),
                              !.merged_after = stage.merged]
    /\ UNCHANGED <<publisher_vars, pipeline_vars, norm_vars, route_vars, runs_vars>>

\* scored = self.scoring.score(filtered); computed: what _compute_scores
\* does on each candidate of the list
ScoreCall ==
    /\ stage.pc = "filtered"
    /\ LET sc == score(stage.filtered)
       IN stage' = [stage EXCEPT !.pc = "scored",
                                 !.computed = [i \in 1..Len(stage.filtered) |->
                                                  compute_scores(stage.filtered[i])],
                                 !.score_raised = sc.raised,
                                 !.scored = sc.topics]
    /\ UNCHANGED <<publisher_vars, pipeline_vars, norm_vars, route_vars, runs_vars>>

NextStages ==
    \/ \E candidates \in SeqsUpTo(ClusterCatalog, MaxCluster) :
           \E cap \in ClusterCaps : ClusterCall(candidates, cap)
    \/ FilterCall
    \/ ScoreCall

SpecStages == InitNorm /\ [][NextStages]_vars

(***************************************************************************)
(* CategoryRouter.route on its own: calls on routers built from any        *)
(* configuration of the categories below, in any configured order.         *)
(***************************************************************************)
\* categories a configuration may hold
CategoryCatalog ==
    { [name |-> <<"a", "i">>, keywords |-> << <<"A", "i">>, <<"b", "o", "t">> >>],
      [name |-> <<"b", "i", "o">>, keywords |-> << <<"t", "i", "p">> >>],
      [name |-> <<"t", "v">>, keywords |-> << <<"b", "o", "t">>, <<"v">> >>] }

\* the orders a dict of the categories in S may have
Orderings(S) ==
    {q \in SeqsUpTo(S, Cardinality(S)) :
        Len(q) = Cardinality(S) /\ \A x \in S : Contains(q, x)}

\* the category_config a router may be built from: any categories of the
\* catalog (or none) in any order
RouteConfigs == UNION {Orderings(S) : S \in SUBSET CategoryCatalog}

\* the texts route() is called with
RouteTexts ==
    { TextBlob(NewsAiBot),
      <<"t", "i", "p", " ", "b", "o", "t">>,
      <<"B", "o", "t", " ", "v">>,
      TextBlob(ShortTopic),
      TextBlob(SymbolTopic) }

\* the fallback argument: a category_hint that names no category, or one
RouteFallbacks == { <<"p">>, <<"a", "i">> }

\* category = self.category_router.route(text, fallback=...); the model
\* keeps the latest two calls
RouteCall(config, text, fallback) ==
    /\ ~routed.prev.done
    /\ routed' = [prev |-> routed.last,
                  last |-> [done |-> TRUE, config |-> config, text |-> text,
                            fallback |-> fallback,
                            category |-> route(config, text, fallback)]]
    /\ UNCHANGED <<publisher_vars, pipeline_vars, norm_vars, stage_vars, runs_vars>>

NextRoute ==
    \E config \in RouteConfigs : \E text \in RouteTexts : \E fallback \in RouteFallbacks :
        RouteCall(config, text, fallback)

SpecRoute == InitNorm /\ [][NextRoute]_vars

(***************************************************************************)
(* run() called twice, one call after the other has ended, on one          *)
(* pipeline: each call with what gather hands back from the connectors     *)
(* and with the transport's answer, should the transport be called.        *)
(***************************************************************************)
\* what fetch() of connector c may end with
FetchOutcomes(c) ==
    {FetchOk(topics) : topics \in FetchResults(c)}
        \cup {FetchFailed(err) : err \in ImplErrors(c)}
        \cup {FetchSkipped}

\* what publisher.publish may do
TransportAnswers == {"returned", "raised"}

\* one whole run() on the results gather handed back; the model keeps the
\* latest two
RunOn(results, answer) ==
    /\ ~runs.prev.done
    /\ LET raw_topics == discover(results)
           candidates == build_candidates(raw_topics)
           clustered == cluster(candidates)
           filtered == filter(clustered)
           sc == score(filtered)
           made == [NoRunMade EXCEPT !.done = TRUE, !.results = results,
                                     !.raw_topics = raw_topics, !.clustered = clustered,
                                     !.filtered = filtered]
       IN IF sc.raised
          THEN /\ runs' = [prev |-> runs.last,
                           last |-> [made EXCEPT !.score_raised = TRUE, !.outcome = "raised"]]
               /\ UNCHANGED publisher_vars
          ELSE LET call == BeginCall("run", sc.topics, seen_ids, Finished)
                   index == Len(calls) + 1
                   ended == IF ~call.invoked THEN call
                            ELSE IF answer = "returned"
                            THEN [call EXCEPT !.pc = "returned", !.result = Len(call.fresh)]
                            ELSE CallAfterFailure(call)
               IN /\ calls' = Append(calls, ended)
                  /\ transport_log' =
                         IF call.invoked
                         THEN LogEnded(LogAfter(transport_log, call, index), index, answer)
                         ELSE transport_log
                  /\ seen_ids' = IF ~call.invoked THEN seen_ids
                                 ELSE IF answer = "returned"
                                 THEN MarkSeen(seen_ids, call.fresh)
                                 ELSE SeenAfterFailure(seen_ids, call.fresh)
                  /\ runs' = [prev |-> runs.last,
                              last |-> [made EXCEPT
                                           !.scored = sc.topics,
                                           !.handed = IF call.invoked THEN call.fresh ELSE <<>>,
                                           !.outcome = ended.pc,
                                           !.returned = IF ended.pc = "returned"
                                                        THEN sc.topics ELSE <<>>]]
    /\ UNCHANGED <<pipeline_vars, norm_vars, stage_vars, route_vars>>

NextRuns ==
    \E results \in {r \in [ConnectorIds -> UNION {FetchOutcomes(c) : c \in ConnectorIds}] :
                       \A c \in ConnectorIds : r[c] \in FetchOutcomes(c)} :
        \E answer \in TransportAnswers : RunOn(results, answer)

SpecRuns == InitNorm /\ [][NextRuns]_vars

(***************************************************************************)
(* Properties.                                                             *)
(***************************************************************************)
CallIds == 1..Len(calls)

\* the topics of a batch
TopicsOf(topics) == {topics[i] : i \in 1..Len(topics)}

\* the batch call c handed to the transport (none: the empty batch)
HandedBy(c) ==
    LET entries == {e \in 1..Len(transport_log) : transport_log[e].call = c}
    IN IF entries = {} THEN <<>> ELSE transport_log[CHOOSE e \in entries : TRUE].topics

\* call i had returned when call j was made
ReturnedBefore(i, j) == i \in calls[j].finished_before /\ calls[i].pc = "returned"

\* call i had raised when call j was made
RaisedBefore(i, j) == i \in calls[j].finished_before /\ calls[i].pc = "raised"

\* call i was still awaiting the transport when call j was made
Overlap(i, j) == i < j /\ i \notin calls[j].finished_before

\* C1: idempotent publish.  When a publish call carrying topic T has
\* returned and a later call carries T again, the later call does not hand
\* T to the transport; and T went to the transport in exactly one of the
\* two calls whenever T's id was unseen when the first of them was made.
C1_IdempotentPublish ==
    \A i \in CallIds : \A j \in CallIds :
        ReturnedBefore(i, j) =>
            \A T \in TopicsOf(calls[i].topics) \cap TopicsOf(calls[j].topics) :
                /\ T \notin TopicsOf(HandedBy(j))
                /\ T.topic_id \notin calls[i].seen_at_start
                       => T \in TopicsOf(HandedBy(i))

\* a first call handed TopicA to the transport and returned, a second call
\* carrying TopicA was made after that
C1_Witness ==
    \E i \in CallIds : \E j \in CallIds :
        /\ ReturnedBefore(i, j)
        /\ TopicA \in TopicsOf(calls[i].topics) \cap TopicsOf(calls[j].topics)
        /\ TopicA \in TopicsOf(HandedBy(i))
        /\ calls[j].pc = "returned"

\* C4: each publish call hands the transport exactly the input topics whose
\* id was not in the seen set when the call was made, in input order (no
\* invocation when there is none), and never a topic whose id was seen.
C4_OnlyFreshInOrder ==
    \A c \in CallIds :
        LET Unseen(t) == t.topic_id \notin calls[c].seen_at_start
        IN /\ HandedBy(c) = SelectSeq(calls[c].topics, Unseen)
           /\ \A t \in TopicsOf(HandedBy(c)) : Unseen(t)
           /\ Cardinality({e \in 1..Len(transport_log) : transport_log[e].call = c})
                  = (IF SelectSeq(calls[c].topics, Unseen) = <<>> THEN 0 ELSE 1)

\* a call that dropped a seen topic and handed on two fresh ones
C4_Witness ==
    \E c \in CallIds :
        /\ Len(HandedBy(c)) >= 2
        /\ Len(HandedBy(c)) < Len(calls[c].topics)
        /\ calls[c].seen_at_start # {}

C7_NoIdHandedTwiceOnOverlap ==
    \A i \in CallIds : \A j \in CallIds :
        Overlap(i, j) => IdsOf(HandedBy(i)) \cap IdsOf(HandedBy(j)) = {}

\* run() is past "await self.discovery.discover()"
PastDiscover == run_pc \in {"publishing", "returned", "raised"}

\* C2: with one connector failed and another one's topics surviving
\* normalization, clustering and the quality filter, run() completes
\* without raising and hands the survivors to the transport.
C2_PartialSourceResilience ==
    ( /\ PastDiscover
      /\ \E a \in ConnectorIds : fetch[a].kind = "ConnectorError"
      /\ \E b \in ConnectorIds : fetch[b].kind = "ok" /\ fetch[b].topics # <<>>
      /\ run.filtered # <<>> )
    => /\ run_pc # "raised"
       /\ run.call # 0
       /\ IdsOf(run.filtered) \subseteq IdsOf(HandedBy(run.call))

\* C3: discover() returns whatever subset of the connectors failed: a
\* failed connector contributes nothing, the topics of every succeeding
\* connector are in the result, and no ConnectorError reaches run().
C3_DiscoverAbsorbsFailures ==
    PastDiscover =>
        /\ run.raw_topics
               = Concat([c \in ConnectorIds |->
                            IF fetch[c].kind = "ok" THEN fetch[c].topics ELSE <<>>])
        /\ run.exc # "ConnectorError"

\* the first connector failed, the second one's topics are the result
C3_Witness ==
    /\ PastDiscover
    /\ fetch[1].kind = "ConnectorError"
    /\ fetch[2].kind = "ok"
    /\ fetch[2].topics # <<>>
    /\ run.raw_topics = fetch[2].topics

ScoreNames ==
    {"trend_velocity", "search_volume", "news_frequency", "youtube_activity",
     "monetization_value"}

\* C8: score() on the filtered output of cluster() returns, without
\* raising, one Topic per input in input order, with the input's id, title,
\* keywords, source URLs and category, and diagnostics holding the raw
\* metadata and the five sub-scores.
C8_ScoreReturnsTopicPerInput ==
    PastDiscover =>
        /\ ~run.score_raised
        /\ Len(run.scored) = Len(run.filtered)
        /\ \A i \in 1..Len(run.filtered) :
               /\ run.scored[i].topic_id = run.filtered[i].topic_id
               /\ run.scored[i].topic_title = run.filtered[i].topic_title
               /\ run.scored[i].keywords = run.filtered[i].keywords
               /\ run.scored[i].source_urls = run.filtered[i].source_urls
               /\ run.scored[i].category = run.filtered[i].category
               /\ run.scored[i].diagnostics.raw_metadata = run.filtered[i].metadata
               /\ DOMAIN run.scored[i].diagnostics.score_components = ScoreNames

\* the raw topics of a pass that no earlier raw topic of the pass shares
\* its id with
KeptIn(pass) ==
    {i \in 1..Len(pass.raw_topics) : \A j \in 1..(i - 1) : pass.ids[j] # pass.ids[i]}

\* C9: in one build_candidates pass a raw topic is dropped exactly when an
\* earlier raw topic of the pass produced the same id; the others yield one
\* candidate each, in input order, with pairwise distinct ids; of raw
\* topics with equal title and summary only the first yields a candidate.
C9_ExactDuplicateSuppression ==
    norm.done =>
        LET kept == KeptIn(norm)
            Rank(i) == Cardinality({k \in kept : k <= i})
        IN /\ Len(norm.candidates) = Cardinality(kept)
           /\ \A i \in kept :
                  /\ norm.candidates[Rank(i)].topic_id = norm.ids[i]
                  /\ norm.candidates[Rank(i)].topic_title = norm.raw_topics[i].title
                  /\ norm.candidates[Rank(i)].metadata.summary = norm.raw_topics[i].summary
                  /\ norm.candidates[Rank(i)].metadata.raw_metadata
                         = norm.raw_topics[i].metadata
           /\ \A a \in 1..Len(norm.candidates) : \A b \in 1..Len(norm.candidates) :
                  a # b => norm.candidates[a].topic_id # norm.candidates[b].topic_id
           /\ \A i \in 1..Len(norm.raw_topics) : \A j \in 1..(i - 1) :
                  ( /\ norm.raw_topics[i].title = norm.raw_topics[j].title
                    /\ norm.raw_topics[i].summary = norm.raw_topics[j].summary )
                  => i \notin kept

\* two different raw topics with the same title and summary, from two
\* connectors, made one candidate, built from the first
C9_Witness ==
    /\ norm.done
    /\ norm.raw_topics = <<RedditAiBot, NewsAiBot>>
    /\ Len(norm.candidates) = 1
    /\ norm.candidates[1].metadata.raw_metadata = RedditAiBot.metadata

SameText(r1, r2) == r1.title = r2.title /\ r1.summary = r2.summary

\* C10: raw topics with equal title and equal summary get the same topic
\* id, whatever their URLs, category hint and metadata, at any position of
\* a pass and in either pass.
C10_DedupDeterminism ==
    LET Ids(pass) == {<<pass.raw_topics[i], pass.ids[i]>> : i \in 1..Len(pass.raw_topics)}
        all == Ids(norm) \cup Ids(norm_prev)
    IN \A x \in all : \A y \in all : SameText(x[1], y[1]) => x[2] = y[2]

\* two passes met raw topics of the same text that differ otherwise
C10_Witness ==
    /\ norm.done /\ norm_prev.done
    /\ \E i \in 1..Len(norm.raw_topics) : \E j \in 1..Len(norm_prev.raw_topics) :
           /\ SameText(norm.raw_topics[i], norm_prev.raw_topics[j])
           /\ norm.raw_topics[i] # norm_prev.raw_topics[j]
           /\ i # j
           /\ norm.ids[i] = norm_prev.ids[j]

\* sorted(keywords[:6]) of a candidate
FirstSixSorted(c) == SortedSeq(SubSeq(c.keywords, 1, Min(Len(c.keywords), 6)))

\* cluster() has been called on stage.candidates
Clustered == stage.pc # "idle"

\* the merged topics that count candidate c among their members
MergedWith(c) ==
    {m \in 1..Len(stage.merged) : Contains(stage.merged[m].metadata.topic_ids, c.topic_id)}

\* the positions of the input list cluster() looks at
Considered == 1..Min(Len(stage.candidates), stage.max_candidates)

\* C11 as stated: two candidates anywhere in the list handed to cluster()
\* whose first six keywords, once sorted, are equal are members of one
\* merged topic.
C11_SameKeySameMergedAnywhere ==
    Clustered =>
        \A i \in 1..Len(stage.candidates) : \A j \in 1..Len(stage.candidates) :
            (i # j /\ FirstSixSorted(stage.candidates[i]) = FirstSixSorted(stage.candidates[j]))
            => MergedWith(stage.candidates[i]) \cap MergedWith(stage.candidates[j]) # {}

\* C11 amended: two candidates among the first max_candidates of the list
\* whose first six keywords, once sorted, are equal are members of one and
\* the same merged topic and of no other, wherever in that range they
\* stand; a candidate all of whose occurrences come after the first
\* max_candidates is a member of none.
C11_SameKeySameMerged ==
    Clustered =>
        /\ \A i \in Considered : \A j \in Considered :
               FirstSixSorted(stage.candidates[i]) = FirstSixSorted(stage.candidates[j])
               => /\ MergedWith(stage.candidates[i]) = MergedWith(stage.candidates[j])
                  /\ Cardinality(MergedWith(stage.candidates[i])) = 1
        /\ \A i \in 1..Len(stage.candidates) :
               (\A k \in Considered : stage.candidates[k] # stage.candidates[i])
               => MergedWith(stage.candidates[i]) = {}

\* two candidates with the same six first keywords in different orders,
\* with a candidate of another cluster between them, are in one merged
\* topic, and the list made two merged topics
C11_Witness ==
    /\ Clustered
    /\ Len(stage.merged) = 2
    /\ stage.candidates = <<LongB, CandidateOf(NewsAiBot), LongA>>
    /\ MergedWith(LongA) = {1}
    /\ MergedWith(LongB) = {1}

\* the positions of the candidates cluster() made merged topic m of
MemberPositions(m) ==
    {i \in Considered :
        Contains(stage.merged[m].metadata.topic_ids, stage.candidates[i].topic_id)}

\* the keywords of the members of merged topic m, member after member
MemberKeywords(m) ==
    LET InM(i) == i \in MemberPositions(m)
        members == SelectSeq([i \in 1..Len(stage.candidates) |-> i], InM)
    IN Concat([k \in 1..Len(members) |-> stage.candidates[members[k]].keywords])

\* the elements of a sequence in the order of their first occurrence
FirstSeen(all) ==
    LET IsFirst(p) == \A q \in 1..(p - 1) : all[q] # all[p]
        firsts == SelectSeq([p \in 1..Len(all) |-> p], IsFirst)
    IN [k \in 1..Len(firsts) |-> all[firsts[k]]]

\* C12: every merged topic cluster() emits has at most 12 keywords, without
\* repeats: the first 12 distinct keywords of its members in first-seen
\* order; its source_urls are in strictly ascending order and are the union
\* of its members' URLs; its source_counts has one entry per source type
\* carried by a member, the count being the number of members carrying it.
C12_MergedTopicShape ==
    Clustered =>
        \A m \in 1..Len(stage.merged) :
            LET topic == stage.merged[m]
                kw == topic.keywords
                urls == topic.source_urls
                counts == topic.metadata.source_counts
                first_seen == FirstSeen(MemberKeywords(m))
                TypeOf(i) == stage.candidates[i].metadata.raw_metadata.source_type
            IN /\ Len(kw) <= 12
               /\ \A a \in 1..Len(kw) : \A b \in 1..Len(kw) : a # b => kw[a] # kw[b]
               /\ kw = SubSeq(first_seen, 1, Min(12, Len(first_seen)))
               /\ \A a \in 1..(Len(urls) - 1) : StrLess(urls[a], urls[a + 1])
               /\ TopicsOf(urls)
                      = UNION {TopicsOf(stage.candidates[i].source_urls) : i \in MemberPositions(m)}
               /\ \A e \in 1..Len(counts) :
                      /\ counts[e].count
                             = Cardinality({i \in MemberPositions(m) :
                                               TypeOf(i) = counts[e].source_type})
                      /\ \A f \in 1..Len(counts) :
                             e # f => counts[e].source_type # counts[f].source_type
               /\ \A i \in MemberPositions(m) :
                      TypeOf(i) # "" => \E e \in 1..Len(counts) : counts[e].source_type = TypeOf(i)

\* one merged topic of three members: 14 distinct keywords cut to 12, three
\* URLs out of four with one shared, two members of one source type
C12_Witness ==
    /\ Clustered
    /\ stage.candidates = <<LongA, LongB, LongA>>
    /\ stage.max_candidates = max_candidates
    /\ Len(stage.merged) = 1
    /\ Len(stage.merged[1].keywords) = 12
    /\ Len(FirstSeen(MemberKeywords(1))) = 14
    /\ stage.merged[1].source_urls = << <<"t">>, <<"u">>, <<"w">> >>
    /\ CountOf(stage.merged[1].metadata.source_counts, "youtube") = 2
    /\ CountOf(stage.merged[1].metadata.source_counts, "reddit") = 1

\* C13: the merged topics of one cluster() call have pairwise distinct
\* ids, the id of the topic at output position p being the cluster key of
\* its members, "-" and p; and the Topics score() returns for them in the
\* same run have pairwise distinct ids.
C13_UniqueIdsInRun ==
    Clustered =>
        /\ \A a \in 1..Len(stage.merged) : \A b \in 1..Len(stage.merged) :
               a # b => stage.merged[a].topic_id # stage.merged[b].topic_id
        /\ \A a \in 1..Len(stage.merged) :
               /\ MemberPositions(a) # {}
               /\ \A i \in MemberPositions(a) :
                      stage.merged[a].topic_id
                          = JoinWith(<<"-">>, FirstSixSorted(stage.candidates[i]))
                                \o <<"-">> \o DecimalDigits(a - 1)
        /\ \A a \in 1..Len(stage.scored) : \A b \in 1..Len(stage.scored) :
               a # b => stage.scored[a].topic_id # stage.scored[b].topic_id

\* a run whose cluster() call emitted three merged topics and whose score()
\* call is over
C13_Witness ==
    /\ stage.pc = "scored"
    /\ Len(stage.merged) = 3
    /\ stage.merged[1].topic_id # stage.merged[2].topic_id
    /\ stage.merged[3].topic_id = <<"d", "-", "2">>

\* C14: discover() launches the fetch of every connector, and run() gets
\* past "await self.discovery.discover()" only when every fetch has
\* returned or raised; the step in which one connector's fetch fails
\* changes no other connector's fetch.
C14_GatherWaitsForAll ==
    /\ [][(run_pc # "discovering" /\ run_pc' = "discovering")
             => \A c \in ConnectorIds : fetch'[c].pc = "pending"]_vars
    /\ [][(run_pc = "discovering" /\ run_pc' # "discovering")
             => \A c \in ConnectorIds : fetch[c].pc = "done"]_vars
    /\ [][\A c \in ConnectorIds :
             (fetch[c].pc # "done" /\ fetch'[c].kind = "ConnectorError")
             => \A d \in ConnectorIds \ {c} : fetch'[d] = fetch[d]]_vars
    /\ [](PastDiscover => /\ \A c \in ConnectorIds : fetch[c].pc = "done"
                          /\ Len(completed) = Len(Connectors))

\* the first connector failed first, the second one's fetch went on and
\* returned topics afterwards, and discover() returned them
C14_Witness ==
    /\ PastDiscover
    /\ completed = <<1, 2>>
    /\ fetch[1].kind = "ConnectorError"
    /\ fetch[2].kind = "ok"
    /\ Len(fetch[2].topics) = 2
    /\ run.raw_topics = fetch[2].topics

RECURSIVE OkLenUpTo(_)
\* the number of topics returned by the connectors 1..c that succeeded
OkLenUpTo(c) ==
    IF c = 0 THEN 0
    ELSE OkLenUpTo(c - 1) + (IF fetch[c].kind = "ok" THEN Len(fetch[c].topics) ELSE 0)

\* C15: the list discover() returns holds, for each connector that
\* succeeded, that connector's topics in the order it returned them, the
\* blocks standing in connector-declaration order whatever the order in
\* which the fetches ended; its length is the sum of the sizes of the
\* successful results.
C15_DeclarationOrder ==
    PastDiscover =>
        /\ Len(run.raw_topics) = OkLenUpTo(Len(Connectors))
        /\ \A c \in ConnectorIds :
               fetch[c].kind = "ok" =>
                   \A k \in 1..Len(fetch[c].topics) :
                       run.raw_topics[OkLenUpTo(c - 1) + k] = fetch[c].topics[k]

\* the second connector's fetch ended before the first one's, both with
\* topics, and the first connector's topics come first in the result
C15_Witness ==
    /\ PastDiscover
    /\ completed = <<2, 1>>
    /\ fetch[1].kind = "ok" /\ Len(fetch[1].topics) = 2
    /\ fetch[2].kind = "ok" /\ Len(fetch[2].topics) = 2
    /\ run.raw_topics = fetch[1].topics \o fetch[2].topics
    /\ run.raw_topics # fetch[2].topics \o fetch[1].topics

\* C16: whenever an outbound request of a connector, of whatever kind, gets
\* no response, the stalled fetch comes to an end and discover() returns:
\* run() gets past "await self.discovery.discover()".
C16_StalledSourceNeverBlocksDiscover ==
    \A c \in ConnectorIds :
        (fetch[c].pc = "stalled") ~> (fetch[c].pc = "done" /\ PastDiscover)

\* every topic of the input of call c had its id in the seen set when the
\* call was made (so too when the input is empty)
NothingFresh(c) == IdsOf(calls[c].topics) \subseteq calls[c].seen_at_start

\* C17: a publish call whose input holds no topic with an unseen id (or is
\* empty) never invokes the transport and returns 0, and the step that
\* makes such a call leaves the seen set and the transport's log as they
\* were.
C17_NothingFreshNoTransport ==
    /\ [](\A c \in CallIds :
             NothingFresh(c) =>
                 /\ \A e \in 1..Len(transport_log) : transport_log[e].call # c
                 /\ calls[c].pc = "returned"
                 /\ calls[c].result = 0)
    /\ [][(Len(calls') = Len(calls) + 1
             /\ IdsOf(calls'[Len(calls')].topics) \subseteq seen_ids)
          => (seen_ids' = seen_ids /\ transport_log' = transport_log)]_vars

\* after a call that handed two topics to the transport and returned, a
\* call with those two topics, both seen
C17_Witness ==
    \E c \in CallIds :
        /\ Len(calls[c].topics) = 2
        /\ calls[c].seen_at_start # {}
        /\ NothingFresh(c)
        /\ calls[c].pc = "returned"
        /\ Len(transport_log) = 1
        /\ seen_ids = calls[c].seen_at_start

\* filter() has been called on stage.merged
Filtered == stage.pc \in {"filtered", "scored"}

\* a merged topic with enough keywords and enough source URLs
HasEvidence(t) ==
    Len(t.keywords) >= min_keyword_count /\ Len(t.source_urls) >= min_source_urls

\* C18: filter() returns exactly the merged topics of its input that have
\* at least min_keyword_count keywords and at least min_source_urls source
\* URLs, unchanged and in input order; the input list and its records are
\* as they were, and the call changes nothing else.
C18_FilterExact ==
    /\ [](Filtered => /\ stage.filtered = SelectSeq(stage.merged, HasEvidence)
                      /\ stage.merged_after = stage.merged)
    /\ [][(stage.pc = "clustered" /\ stage'.pc = "filtered")
          => /\ stage'.merged = stage.merged
             /\ stage'.candidates = stage.candidates
             /\ UNCHANGED <<publisher_vars, pipeline_vars, norm_vars, route_vars, runs_vars>>]_vars

\* of three merged topics one was dropped for its keywords alone, one for
\* its URLs alone, and the third, last in the input, was kept
C18_Witness ==
    /\ Filtered
    /\ Len(stage.merged) = 3
    /\ Len(stage.merged[1].keywords) = 2 /\ Len(stage.merged[1].source_urls) = 1
    /\ Len(stage.merged[2].keywords) = 7 /\ Len(stage.merged[2].source_urls) = 0
    /\ stage.filtered = << stage.merged[3] >>
    /\ Len(stage.merged[3].keywords) = 3 /\ Len(stage.merged[3].source_urls) = 1

\* score() has been called on stage.filtered
Scored == stage.pc = "scored"

\* one, in the unit of global_score (ten-thousandths)
GlobalUnit == 10000

\* C19: for every merged topic handed to scoring, _compute_scores yields
\* five sub-scores that each lie in [0,1], and their global_score lies in
\* [0,1].
C19_ScoresInUnitRange ==
    Scored =>
        \A i \in 1..Len(stage.filtered) :
            /\ ~stage.computed[i].raised
            /\ \A name \in ScoreNames :
                   /\ stage.computed[i].scores[name] >= 0
                   /\ stage.computed[i].scores[name] <= ScoreUnit
            /\ global_score(stage.computed[i].scores) >= 0
            /\ global_score(stage.computed[i].scores) <= GlobalUnit

\* the sub-scores section 4.6 gives for a merged topic, in units of
\* 1/ScoreUnit (estimated_cpm in hundredths)
StatedScores(topic) ==
    LET youtube == CountOf(topic.metadata.source_counts, "youtube")
        reddit == CountOf(topic.metadata.source_counts, "reddit")
    IN [trend_velocity |-> Min(ScoreUnit, ((youtube + reddit) * ScoreUnit) \div 10),
        search_volume |-> Min(ScoreUnit, (Len(topic.keywords) * ScoreUnit) \div 12),
        news_frequency |-> Min(ScoreUnit, (Len(topic.source_urls) * ScoreUnit) \div 10),
        youtube_activity |-> Min(ScoreUnit, (youtube * ScoreUnit) \div 5),
        monetization_value |->
            Max((monetization_baseline * ScoreUnit) \div 100,
                Min(ScoreUnit, (default_cpm * ScoreUnit) \div 100))]

\* 0.35, 0.25, 0.15, 0.15 and 0.10 of the five sub-scores, in units of
\* 1/(100 * ScoreUnit)
StatedWeightedSum(s) ==
    35 * s.trend_velocity + 25 * s.search_volume + 15 * s.news_frequency
        + 15 * s.youtube_activity + 10 * s.monetization_value

\* C20: for every merged topic handed to scoring, _compute_scores yields
\* the five sub-scores of section 4.6, and global_score is their weighted
\* sum with the weights 0.35, 0.25, 0.15, 0.15, 0.10 rounded to 4 decimals
\* (within half a ten-thousandth of the sum).
C20_GlobalScoreFormula ==
    Scored =>
        \A i \in 1..Len(stage.filtered) :
            /\ ~stage.computed[i].raised
            /\ stage.computed[i].scores = StatedScores(stage.filtered[i])
            /\ LET sum == StatedWeightedSum(stage.computed[i].scores)
                   g == global_score(stage.computed[i].scores)
               IN /\ 2 * (g * 100 * ScoreUnit - sum * GlobalUnit) <= 100 * ScoreUnit
                  /\ 2 * (sum * GlobalUnit - g * 100 * ScoreUnit) <= 100 * ScoreUnit

\* the calls of route() the model holds
RouteCalls == {c \in {routed.prev, routed.last} : c.done}

\* the keyword-match count of the i-th configured category on the call's text
CountAt(call, i) == MatchCount(call.config[i].keywords, MapLower(call.text))

\* the positions, in configured order, of the categories that share the
\* highest count, when that count is positive
TiedBest(call) ==
    {i \in 1..Len(call.config) :
        /\ CountAt(call, i) > 0
        /\ \A j \in 1..Len(call.config) : CountAt(call, j) <= CountAt(call, i)}

FirstOf(S) == CHOOSE i \in S : \A j \in S : i <= j
LastOf(S) == CHOOSE i \in S : \A j \in S : j <= i

\* C21 as stated: when two or more configured categories tie for the
\* highest positive keyword-match count, route() returns the tied category
\* that comes last in the configured order.
C21_TieGoesToLast ==
    \A call \in RouteCalls :
        Cardinality(TiedBest(call)) >= 2
        => call.category = call.config[LastOf(TiedBest(call))].name

\* C21 amended: when two or more configured categories tie for the highest
\* positive keyword-match count, route() returns the tied category that
\* comes first in the configured order; with a single best category it
\* returns that one.
C21_TieGoesToFirst ==
    \A call \in RouteCalls :
        TiedBest(call) # {}
        => call.category = call.config[FirstOf(TiedBest(call))].name

\* a call on which the three configured categories tie at one match: the
\* one configured first is returned, not the one configured last
C21_Witness ==
    /\ routed.last.done
    /\ Len(routed.last.config) = 3
    /\ routed.last.text = <<"t", "i", "p", " ", "b", "o", "t">>
    /\ Cardinality(TiedBest(routed.last)) = 3
    /\ routed.last.category # routed.last.config[3].name
    /\ routed.last.category = routed.last.config[1].name

\* no keyword of any configured category occurs in the call's text, and at
\* least one category is configured
NoMatch(call) ==
    /\ call.config # <<>>
    /\ \A i \in 1..Len(call.config) : CountAt(call, i) = 0

\* C22: for a text that matches no keyword of any configured category,
\* route() returns the element of the sorted category names at index
\* hash(lower-cased text) mod number-of-categories; two calls with that
\* text on the same categories return the same category, whatever the
\* order the categories are configured in and whatever the hint.
C22_FallbackDeterminism ==
    /\ \A call \in RouteCalls :
           NoMatch(call)
           => LET names == SetToSortedSeq(CategoryNames(call.config))
              IN call.category = names[(Sha1Int(MapLower(call.text)) % Len(names)) + 1]
    /\ \A c1 \in RouteCalls : \A c2 \in RouteCalls :
           ( /\ NoMatch(c1)
             /\ NoMatch(c2)
             /\ c1.text = c2.text
             /\ CategoryNames(c1.config) = CategoryNames(c2.config) )
           => c1.category = c2.category

\* two calls with one unmatched text on the same three categories,
\* configured in different orders, with different hints: the same category
\* comes back, which the second router did not hold first and which is
\* neither hint
C22_Witness ==
    /\ routed.prev.done
    /\ routed.last.done
    /\ NoMatch(routed.prev)
    /\ routed.prev.text = routed.last.text
    /\ Len(routed.prev.config) = 3
    /\ CategoryNames(routed.prev.config) = CategoryNames(routed.last.config)
    /\ routed.prev.config[1] # routed.last.config[1]
    /\ routed.prev.fallback # routed.last.fallback
    /\ routed.prev.category = routed.last.category
    /\ routed.last.category # routed.last.config[1].name
    /\ routed.last.category \notin {routed.prev.fallback, routed.last.fallback}

\* C23: a connector whose configuration has enabled = false returns an
\* empty sequence from fetch() without ever calling _fetch_impl (so no
\* request is made and none can stall), and discovery gets it as a result,
\* not as an exception.
C23_DisabledFetchesNothing ==
    \A c \in ConnectorIds :
        ~enabled[c] =>
            /\ ~fetch[c].impl_called
            /\ fetch[c].pc \in {"idle", "pending", "done"}
            /\ fetch[c].pc = "done" =>
                   /\ fetch[c].kind = "ok"
                   /\ fetch[c].topics = <<>>
                   /\ fetch[c].exc = NoExc

\* a run with the first connector disabled and the second enabled: the
\* disabled one's fetch ended first, with nothing, and discover() returned
\* the topics of the other
C23_Witness ==
    /\ PastDiscover
    /\ ~enabled[1]
    /\ enabled[2]
    /\ completed = <<1, 2>>
    /\ fetch[1].kind = "ok"
    /\ ~fetch[1].impl_called
    /\ fetch[2].impl_called
    /\ fetch[2].topics # <<>>
    /\ run.raw_topics = fetch[2].topics

\* what an exception carries as its arguments
ArgsOf(exc) == {exc.args[i] : i \in 1..Len(exc.args)}

\* C24: every failure raised inside a connector's _fetch_impl leaves
\* fetch() as a ConnectorError that carries the connector's name and the
\* underlying cause, and no other kind of error leaves fetch().
C24_TypedErrorWithNameAndCause ==
    \A c \in ConnectorIds :
        (fetch[c].pc = "done" /\ fetch[c].kind # "ok") =>
            /\ fetch[c].exc.type = "ConnectorError"
            /\ Connectors[c] \in ArgsOf(fetch[c].exc)
            /\ \/ fetch[c].exc.cause \in ImplErrors(c)
               \/ fetch[c].exc.context \in ImplErrors(c)

\* two merged topics built from the same member candidates
SameMembers(m1, m2) == m1.metadata.topic_ids = m2.metadata.topic_ids

\* both runs the model holds have been made
TwoRuns == runs.prev.done /\ runs.last.done

KeyAt(i) == JoinWith(<<"-">>, FirstSixSorted(stage.candidates[i]))

\* C26: cluster() considers only the first max_candidates candidates of its
\* input.  Every candidate before the cap is a member of exactly one
\* merged topic, the one of its cluster key; there is exactly one merged
\* topic per distinct key among them; and the member ids, keywords, URLs
\* and source counts of a merged topic come from the candidates before the
\* cap that have its key, none from a candidate at or beyond the cap.
C26_OnlyFirstMaxCandidates ==
    Clustered =>
        LET key_at == [i \in Considered |-> KeyAt(i)]
            \* the distinct keys of the considered candidates, first seen first
            keys == FirstSeen(key_at)
            \* the considered positions that hold a candidate of the k-th key
            members == [k \in 1..Len(keys) |-> {i \in Considered : key_at[i] = keys[k]}]
            TypeOf(i) == stage.candidates[i].metadata.raw_metadata.source_type
        IN /\ Len(stage.merged) = Len(keys)
           /\ \A i \in Considered :
                  LET with == MergedWith(stage.candidates[i])
                  IN /\ Cardinality(with) = 1
                     /\ \A m \in with : i \in members[m]
           /\ \A m \in 1..Len(stage.merged) :
                  LET topic == stage.merged[m]
                      InM(i) == i \in members[m]
                      in_order == SelectSeq([i \in 1..Len(stage.candidates) |-> i], InM)
                      counts == topic.metadata.source_counts
                  IN /\ topic.topic_id = keys[m] \o <<"-">> \o DecimalDigits(m - 1)
                     /\ topic.metadata.topic_ids
                            = [k \in 1..Len(in_order) |-> stage.candidates[in_order[k]].topic_id]
                     /\ TopicsOf(topic.keywords)
                            \subseteq UNION {TopicsOf(stage.candidates[i].keywords) :
                                                i \in members[m]}
                     /\ TopicsOf(topic.source_urls)
                            = UNION {TopicsOf(stage.candidates[i].source_urls) : i \in members[m]}
                     /\ \A e \in 1..Len(counts) :
                            counts[e].count
                                = Cardinality({i \in members[m] :
                                                  TypeOf(i) = counts[e].source_type})

\* a service with the small cap got three candidates, the third of the key
\* of the first: two merged topics, and the first holds nothing of the
\* third (not its id, its keyword "i", its URL "t" or its source type)
C26_Witness ==
    /\ Clustered
    /\ stage.max_candidates = SmallCap
    /\ stage.candidates = <<LongA, TwoWords, LongB>>
    /\ Len(stage.merged) = 2
    /\ stage.merged[1].metadata.topic_ids = << LongA.topic_id >>
    /\ ~Contains(stage.merged[1].keywords, <<"i">>)
    /\ ~Contains(stage.merged[1].source_urls, <<"t">>)
    /\ CountOf(stage.merged[1].metadata.source_counts, "reddit") = 0
    /\ CountOf(stage.merged[1].metadata.source_counts, "youtube") = 1

\* C27: for every merged topic, the title is the title of its first member
\* candidate in input order and the category is the category of its last
\* member candidate, whatever the categories of the other members.
C27_FirstTitleLastCategory ==
    Clustered =>
        \A m \in 1..Len(stage.merged) :
            LET members == MemberPositions(m)
            IN /\ members # {}
               /\ stage.merged[m].topic_title = stage.candidates[FirstOf(members)].topic_title
               /\ stage.merged[m].category = stage.candidates[LastOf(members)].category

\* one merged topic of three members, two of one category and then one of
\* another: it has the title of the first and the category of the third
C27_Witness ==
    /\ Clustered
    /\ stage.candidates = <<LongA, LongA, LongB>>
    /\ stage.max_candidates = max_candidates
    /\ Len(stage.merged) = 1
    /\ MemberPositions(1) = {1, 2, 3}
    /\ stage.merged[1].topic_title = LongA.topic_title
    /\ stage.merged[1].category = LongB.category
    /\ LongA.category # LongB.category
    /\ LongA.topic_title # LongB.topic_title

\* every connector failed or returned no topics
NothingDiscovered == \A c \in ConnectorIds : fetch[c].kind # "ok" \/ fetch[c].topics = <<>>

\* C28: if every connector fails or returns no topics, run() still goes
\* through every later stage on the empty input (build_candidates,
\* cluster, filter and score each return an empty list and publish() is
\* called with it), returns an empty sequence without raising, and the
\* transport is not invoked.
C28_EmptyDiscoveryRunsThrough ==
    (PastDiscover /\ NothingDiscovered) =>
        /\ run_pc = "returned"
        /\ run.exc = ""
        /\ ~run.score_raised
        /\ run.raw_topics = <<>>
        /\ run.candidates = <<>>
        /\ run.clustered = <<>>
        /\ run.filtered = <<>>
        /\ run.scored = <<>>
        /\ run.returned = <<>>
        /\ run.call \in CallIds
        /\ calls[run.call].caller = "run"
        /\ calls[run.call].topics = <<>>
        /\ calls[run.call].pc = "returned"
        /\ calls[run.call].result = 0
        /\ ~calls[run.call].invoked
        /\ \A e \in 1..Len(transport_log) : transport_log[e].call # run.call

\* a run in which one enabled connector returned no topics and the other
\* failed: run() has returned, its publish call is on record and the
\* transport has never been called
C28_Witness ==
    /\ run_pc = "returned"
    /\ enabled[1] /\ enabled[2]
    /\ fetch[1].kind = "ok"
    /\ fetch[1].topics = <<>>
    /\ fetch[2].kind = "ConnectorError"
    /\ run.call = 1
    /\ calls[1].caller = "run"
    /\ transport_log = <<>>

\* the ids handed to the transport in invocations that returned
DeliveredIds ==
    UNION {IdsOf(transport_log[e].topics) :
              e \in {x \in 1..Len(transport_log) : transport_log[x].outcome = "returned"}}

\* C29: over any publish calls, returning or failing, on one
\* QueuePublisherService, the seen-id set starts empty, only ever grows,
\* and every id in it was passed to the transport in a publish call whose
\* transport invocation returned without error.
C29_SeenIdsGrowFromDeliveries ==
    /\ seen_ids = {}
    /\ [][seen_ids \subseteq seen_ids']_vars
    /\ [](seen_ids \subseteq DeliveredIds)

\* one call delivered a topic and returned, another one's transport call
\* failed: the seen-id set holds the id of the first and not of the second
C29_Witness ==
    /\ Len(calls) = 2
    /\ calls[1].pc = "returned"
    /\ calls[1].invoked
    /\ calls[2].pc = "raised"
    /\ seen_ids = IdsOf(calls[1].fresh)
    /\ IdsOf(calls[2].fresh) \cap seen_ids = {}
    /\ IdsOf(calls[2].fresh) # {}

\* the topic has the keywords and the source URLs the quality filter asks for
MeetsQuality(t) ==
    Len(t.keywords) >= min_keyword_count /\ Len(t.source_urls) >= min_source_urls

\* the batches run() calls handed to the transport
RunBatches ==
    {transport_log[e].topics :
        e \in {x \in 1..Len(transport_log) : calls[transport_log[x].call].caller = "run"}}

\* C30: every Topic run() hands to the transport has at least
\* min_keyword_count keywords and at least min_source_urls source URLs: what
\* run() carries past the quality filter meets both minimums, what it hands
\* to publish() is made of that, and no merged topic the filter rejected
\* is in a batch a run handed to the transport.
C30_OnlyQualityTopicsReachTransport ==
    /\ \A batch \in RunBatches : \A i \in 1..Len(batch) : MeetsQuality(batch[i])
    /\ PastDiscover =>
           /\ \A i \in 1..Len(run.filtered) : MeetsQuality(run.filtered[i])
           /\ IdsOf(run.scored) \subseteq IdsOf(run.filtered)
           /\ \A i \in 1..Len(run.clustered) :
                  ~MeetsQuality(run.clustered[i])
                  => /\ run.clustered[i].topic_id \notin IdsOf(run.filtered)
                     /\ \A batch \in RunBatches :
                            run.clustered[i].topic_id \notin IdsOf(batch)

\* a run whose clustering made a topic the filter rejected next to one it
\* kept: the run is over and the rejected topic is in no batch
C30_Witness ==
    /\ PastDiscover
    /\ Len(run.clustered) >= 2
    /\ \E i \in 1..Len(run.clustered) : ~MeetsQuality(run.clustered[i])
    /\ run.filtered # <<>>
    /\ Len(run.filtered) < Len(run.clustered)
    /\ \A batch \in RunBatches : IdsOf(batch) \cap IdsOf(run.clustered) = {}

====
